---- MODULE Spec2Model ----
(***************************************************************************)
(* The message-aggregation and dispatch engine of the CharacterAI-Discord  *)
(* bridge: class discord_AI_bot of AI_utils.py.  One asyncio event loop    *)
(* runs the message handler (read_channel_messages), the typing handler    *)
(* (time_typing), the inactivity monitor (monitor_inactivity) and the      *)
(* dispatch (AI_send_message).  Every action below is one run of a         *)
(* coroutine from one suspension point (a real await) to the next.         *)
(***************************************************************************)
EXTENDS Integers, Sequences, FiniteSets, TLC

VARIABLES
    channel_bot_chat,    \* config Discord.channel_bot_chat: the watch-list
    messages_cache,      \* config Discord.messages_cache: the cache file path
    send_line_by_line,   \* config Options.send_message_line_by_line
    now,                 \* time.time()
    last_message_time,   \* self.last_message_time
    awaiting_response,   \* self.awaiting_response
    locked,              \* self.response_lock._locked
    waiters,             \* self.response_lock._waiters (FIFO)
    files,               \* the file system: path -> [exists, data]
    pending,             \* read_channel_messages calls suspended in fetch_message
    nextId,              \* arrival number of the next accepted message event
    pc,                  \* position of each AI_send_message caller
    response_channel,    \* local response_channel of each call (0 = None)
    cached_data,         \* local cached_data of each call ([bound, data])
    lines,               \* messages the call still has to send (head in flight)
    sent,                \* messages sent to the channel since the last snapshot
    wakeAt,              \* end of the monitor's asyncio.sleep(3)
    passed,              \* history: id -> number of batches passed to cai_response
    captured,            \* history: ids that capture_message appended
    lost,                \* history: ids removed by a reconciliation whose snapshot did not hold them
    last_event,          \* history: time of the last message or typing event of a user in a watched channel
    last_accept,         \* history: time of the last typing event or completed accept
    ev                   \* history: the last step taken and its outcome

vars == <<channel_bot_chat, messages_cache, send_line_by_line, now,
          last_message_time, awaiting_response, locked, waiters, files,
          pending, nextId, pc, response_channel, cached_data, lines, sent,
          wakeAt, passed, captured, lost, last_event, last_accept, ev>>

config == <<channel_bot_chat, messages_cache, send_line_by_line>>

----------------------------------------------------------------------------
(* Bounds of the model *)

MaxTime  == 3     \* Spec: the clock stops here
MaxMsgs  == 1     \* Spec: accepted message events
NumExt   == 1     \* Spec: callers of AI_send_message besides the monitor
MaxClock == 9     \* SpecTiming: the clock stops here
MaxBatch == 5     \* SpecTiming: accepted message events
MaxArrivals == 2  \* SpecCollect: accepted message events
MaxLen   == 2     \* SpecReconcile: length of the cache and of the snapshot
MaxQuiet == 13    \* SpecRetry: the clock stops here
MaxReply == 4     \* SpecDeliver: length of the reply of the AI client

(* Program constants *)

TickPeriod     == 3
IdleThreshold  == 7
BatchThreshold == 5

----------------------------------------------------------------------------
(* Data *)

Mon   == 0
Ext   == 1..NumExt
Procs == {Mon} \cup Ext

DefaultPath == "messages_cache.json"
OtherPath   == "other.json"
Paths       == {DefaultPath, OtherPath}

WatchedChannel == 1
OtherChannel   == 2
Channels       == {WatchedChannel, OtherChannel}

BotUser == [id |-> 0, name |-> "bot", global_name |-> "Bot"]
Human   == [id |-> 1, name |-> "u1", global_name |-> ""]
Users   == {BotUser, Human}

Hello    == <<"h", "i">>
Contents == {Hello, <<"#", "x">>, <<"/", "/">>}

Whitespace == {" ", "\n"}
Responses  == {<<"a", "\n", " ", "\n", "b">>}

Range(s) == {s[i] : i \in DOMAIN s}

Ev(k, p, out) == [k |-> k, p |-> p, out |-> out]

Unbound == [bound |-> FALSE, data |-> <<>>]
Bound(d) == [bound |-> TRUE, data |-> d]

NoFile == [exists |-> FALSE, data |-> <<>>]
File(d) == [exists |-> TRUE, data |-> d]

----------------------------------------------------------------------------
(* Pure helpers *)

\* str.startswith(prefix)
StartsWith(s, pre) ==
    /\ Len(s) >= Len(pre)
    /\ SubSeq(s, 1, Len(pre)) = pre

\* message.content.startswith(("#", "//"))
IsComment(content) ==
    \/ StartsWith(content, <<"#">>)
    \/ StartsWith(content, <<"/", "/">>)

\* the comment test forgotten: comment-marked messages are accepted
AcceptsComments(channel, author, content) ==
    /\ channel \in Range(channel_bot_chat)
    /\ author.id # BotUser.id

\* the filter of read_channel_messages
Accepts(channel, author, content) ==
    /\ channel \in Range(channel_bot_chat)
    /\ author.id # BotUser.id
    /\ ~IsComment(content)

\* an event of a user other than the bot in a watched channel
FromUser(channel, user) ==
    channel \in Range(channel_bot_chat) /\ user.id # BotUser.id

\* author.global_name or author.name
DisplayName(u) == IF u.global_name # "" THEN u.global_name ELSE u.name

\* the record capture_message stores; id is the arrival number, kept for the
\* history only: Python compares the stored dicts by val
Entry(id, author, content, reply) ==
    [id  |-> id,
     val |-> [username |-> author.name, name |-> DisplayName(author),
              message |-> content, reply_message |-> reply]]

\* the message a reply reference resolves to
RefMessage == [author |-> Human, content |-> <<"y", "o">>]

ReplyOf(ref) ==
    <<[username |-> ref.author.name, name |-> DisplayName(ref.author),
       message |-> ref.content]>>

\* x in cached_data: dict equality, which does not see the arrival number
In(x, snap) == \E j \in DOMAIN snap : snap[j].val = x.val

Ids(s) == {s[i].id : i \in DOMAIN s}

\* utils.read_json / utils.write_json / utils.capture_message
read_json(fs, path) == fs[path].data
write_json(fs, path, data) == [fs EXCEPT ![path] = File(data)]
capture_message(fs, path, entry) ==
    write_json(fs, path, Append(read_json(fs, path), entry))

\* the filter forgotten: the whole cache is cleared after a dispatch
RemainderCleared(current_cache, snap) == <<>>

\* the filter inverted: the entries of the snapshot are the ones kept
RemainderKept(current_cache, snap) ==
    SelectSeq(current_cache, LAMBDA x : In(x, snap))

\* [x for x in current_cache if x not in cached_data]
Remainder(current_cache, snap) ==
    SelectSeq(current_cache, LAMBDA x : ~In(x, snap))

\* response.split("\n")
RECURSIVE SplitFrom(_, _, _)
SplitFrom(s, i, cur) ==
    IF i > Len(s) THEN <<cur>>
    ELSE IF s[i] = "\n" THEN <<cur>> \o SplitFrom(s, i + 1, <<>>)
    ELSE SplitFrom(s, i + 1, Append(cur, s[i]))

Split(s) == SplitFrom(s, 1, <<>>)

\* line.strip()
RECURSIVE LStrip(_)
LStrip(l) ==
    IF l # <<>> /\ Head(l) \in Whitespace THEN LStrip(Tail(l)) ELSE l

RECURSIVE RStrip(_)
RStrip(l) ==
    IF l # <<>> /\ l[Len(l)] \in Whitespace
    THEN RStrip(SubSeq(l, 1, Len(l) - 1)) ELSE l

Strip(l) == RStrip(LStrip(l))

\* the blank test forgotten: every line is sent
ToSendEveryLine(response) ==
    IF send_line_by_line THEN Split(response) ELSE <<response>>

\* the messages the delivery loop sends for a response
ToSend(response) ==
    IF send_line_by_line
    THEN SelectSeq(Split(response), LAMBDA l : Strip(l) # <<>>)
    ELSE <<response>>

----------------------------------------------------------------------------
(* Initial state: the bot object after __init__, the monitor just started, *)
(* the configured cache file as the previous run left it.                  *)

\* the cache file a previous run left behind: n entries not yet dispatched
Persisted(n) == [i \in 1..n |-> Entry(i - n, Human, Hello, <<>>)]

InitWith(paths, delivery, leftovers) ==
    /\ channel_bot_chat \in {<<>>, <<WatchedChannel>>}
    /\ messages_cache \in paths
    /\ send_line_by_line \in delivery
    /\ now = 0
    /\ last_message_time = 0
    /\ awaiting_response = FALSE
    /\ locked = FALSE
    /\ waiters = <<>>
    /\ \E c0 \in leftovers :
          /\ files = [p \in Paths |-> IF p = messages_cache THEN File(c0) ELSE NoFile]
          /\ captured = Ids(c0)
    /\ pending = {}
    /\ nextId = 1
    /\ pc = [p \in Procs |-> "idle"]
    /\ response_channel = [p \in Procs |-> 0]
    /\ cached_data = [p \in Procs |-> Unbound]
    /\ lines = [p \in Procs |-> <<>>]
    /\ sent = <<>>
    /\ wakeAt = TickPeriod
    /\ passed = [i \in (1 - BatchThreshold)..(MaxMsgs + MaxBatch) |-> 0]
    /\ lost = {}
    /\ last_event = 0
    /\ last_accept = 0
    /\ ev = Ev("init", Mon, "none")

Init == InitWith({DefaultPath}, {TRUE}, {Persisted(0), Persisted(BatchThreshold)})

InitTiming == InitWith(Paths, BOOLEAN, {Persisted(0), Persisted(1)})

----------------------------------------------------------------------------
(* The clock moves on by d.  A due monitor tick runs first.                *)

Advance(d) ==
    /\ ~(pc[Mon] = "idle" /\ now >= wakeAt)
    /\ now' = now + d
    /\ ev' = Ev("advance", Mon, "none")
    /\ UNCHANGED <<config, last_event, last_accept, last_message_time,
                   awaiting_response, locked,
                   waiters, files, pending, nextId, pc, response_channel,
                   cached_data, lines, sent, wakeAt, passed, captured, lost>>

----------------------------------------------------------------------------
(* time_typing *)

\* the refresh forgotten: typing never counts as activity
TypingIgnored(channel, user) == FALSE

\* the channel test forgotten: typing anywhere counts
TypingAnyChannel(channel, user) == user # BotUser

\* channel.id in channel_bot_chat and user != client.user
TypingCounts(channel, user) ==
    channel \in Range(channel_bot_chat) /\ user # BotUser

time_typing(channel, user) ==
    /\ IF TypingCounts(channel, user)
       THEN /\ last_message_time' = now
            /\ ev' = Ev("typing", Mon, "refresh")
       ELSE /\ last_message_time' = last_message_time
            /\ ev' = Ev("typing", Mon, "ignore")
    /\ IF FromUser(channel, user)
       THEN last_event' = now /\ last_accept' = now
       ELSE UNCHANGED <<last_event, last_accept>>
    /\ UNCHANGED <<config, now, awaiting_response, locked, waiters, files,
                   pending, nextId, pc, response_channel, cached_data, lines,
                   sent, wakeAt, passed, captured, lost>>

----------------------------------------------------------------------------
(* read_channel_messages: up to the capture, or up to the await of         *)
(* channel.fetch_message when the message carries a reply reference.       *)

read_channel_messages(channel, author, content, hasRef) ==
    /\ IF ~Accepts(channel, author, content)
       THEN /\ ev' = Ev("message", Mon, "reject")
            /\ UNCHANGED <<last_message_time, files, pending, nextId, captured>>
       ELSE IF hasRef
       THEN /\ pending' = pending \cup {[id |-> nextId, author |-> author, content |-> content]}
            /\ nextId' = nextId + 1
            /\ ev' = Ev("message", Mon, "fetch")
            /\ UNCHANGED <<last_message_time, files, captured>>
       ELSE /\ files' = capture_message(files, messages_cache,
                                        Entry(nextId, author, content, <<>>))
            /\ captured' = captured \cup {nextId}
            /\ last_message_time' = now
            /\ nextId' = nextId + 1
            /\ ev' = Ev("message", Mon, "capture")
            /\ UNCHANGED pending
    /\ last_event' = IF FromUser(channel, author) THEN now ELSE last_event
    /\ last_accept' = IF Accepts(channel, author, content) /\ ~hasRef
                      THEN now ELSE last_accept
    /\ UNCHANGED <<config, now, awaiting_response, locked, waiters, pc,
                   response_channel, cached_data, lines, sent, wakeAt, passed, lost>>

\* read_channel_messages resumed after channel.fetch_message
fetch_message_done(h, ok) ==
    /\ h \in pending
    /\ pending' = pending \ {h}
    /\ IF ok
       THEN /\ files' = capture_message(files, messages_cache,
                            Entry(h.id, h.author, h.content, ReplyOf(RefMessage)))
            /\ captured' = captured \cup {h.id}
            /\ ev' = Ev("fetched", Mon, "capture")
       ELSE /\ ev' = Ev("fetched", Mon, "error")
            /\ UNCHANGED <<files, captured>>
    /\ last_message_time' = now
    /\ last_accept' = now
    /\ UNCHANGED <<config, last_event, now, awaiting_response, locked, waiters, nextId,
                   pc, response_channel, cached_data, lines, sent, wakeAt,
                   passed, lost>>

----------------------------------------------------------------------------
(* AI_send_message.  The steps of one call between its suspension points:  *)
(* the lock, entering response_channel.typing(), cai.cai_response, and     *)
(* each response_channel.send.                                             *)

\* the lock forgotten: every caller walks in
LockFreeUnguarded == TRUE

\* async with self.response_lock: acquired without suspending when the lock
\* is free and nobody waits for it
LockFree == ~locked /\ waiters = <<>>

\* the except clause forgotten: an exception ends the loop
MonitorDies(raised) == IF raised THEN "dead" ELSE "idle"

\* the monitor after a tick: "except Exception" logs and "while True" goes on
MonitorResume(raised) == "idle"

\* the call has returned (or raised) to its caller; the monitor sleeps again
Returned(p, raised) ==
    /\ pc' = [pc EXCEPT ![p] = IF p = Mon THEN MonitorResume(raised) ELSE "idle"]
    /\ response_channel' = [response_channel EXCEPT ![p] = 0]
    /\ cached_data' = [cached_data EXCEPT ![p] = Unbound]
    /\ lines' = [lines EXCEPT ![p] = <<>>]
    /\ wakeAt' = IF p = Mon THEN now + TickPeriod ELSE wakeAt

\* the fresh read forgotten: the rest is computed from the snapshot itself
ReconciledFromSnapshot(fs, cd) ==
    write_json(fs, messages_cache, Remainder(cd.data, cd.data))

\* the try of the finally clause: read the cache, drop what is in cached_data,
\* write the rest.  With cached_data unbound the comprehension raises
\* NameError on its first element and nothing is written.
Reconciled(fs, cd) ==
    LET current_cache == read_json(fs, messages_cache) IN
    IF cd.bound
    THEN write_json(fs, messages_cache, Remainder(current_cache, cd.data))
    ELSE IF current_cache = <<>>
    THEN write_json(fs, messages_cache, <<>>)
    ELSE fs

\* the finally clause, the release of the lock and the return
Finally(p, cd, k, out) ==
    /\ awaiting_response' = FALSE
    /\ last_message_time' = now
    /\ files' = Reconciled(files, cd)
    /\ lost' = lost \cup
          ((Ids(read_json(files, messages_cache))
              \ Ids(read_json(Reconciled(files, cd), messages_cache)))
              \ Ids(cd.data))
    /\ locked' = FALSE
    /\ Returned(p, FALSE)
    /\ ev' = Ev(k, p, out)

\* the flag forgotten in the else branch: it stays as line 124 set it
NoInternetStuck(p, k) ==
    /\ awaiting_response' = TRUE
    /\ locked' = FALSE
    /\ Returned(p, FALSE)
    /\ ev' = Ev(k, p, "noinet")
    /\ UNCHANGED <<last_message_time, files, lost>>

\* the else branch of "if utils.test_internet()"
NoInternet(p, k) ==
    /\ awaiting_response' = FALSE
    /\ locked' = FALSE
    /\ Returned(p, FALSE)
    /\ ev' = Ev(k, p, "noinet")
    /\ UNCHANGED <<last_message_time, files, lost>>

\* the call suspends inside the lock
Suspend(p, at, rc, cd, ls, aw, k, out) ==
    /\ awaiting_response' = aw
    /\ locked' = TRUE
    /\ pc' = [pc EXCEPT ![p] = at]
    /\ response_channel' = [response_channel EXCEPT ![p] = rc]
    /\ cached_data' = [cached_data EXCEPT ![p] = cd]
    /\ lines' = [lines EXCEPT ![p] = ls]
    /\ ev' = Ev(k, p, out)
    /\ UNCHANGED <<last_message_time, files, wakeAt, lost>>

\* from the lock to the first suspension: test_internet, then
\* response_channel.typing(), which raises AttributeError on None
Enter(p, rc, internet, aw, k) ==
    IF ~internet THEN NoInternet(p, k)
    ELSE IF rc = 0 THEN Finally(p, Unbound, k, "unbound")
    ELSE Suspend(p, "typing", rc, Unbound, <<>>, aw, k, "typing")

\* the start of the call: the flag, the channel lookup, the lock
Begin(p, found, internet, k) ==
    /\ IF channel_bot_chat = <<>>
       THEN \* channel_bot_chat[0] raises IndexError out of the call
            /\ awaiting_response' = TRUE
            /\ Returned(p, TRUE)
            /\ ev' = Ev(k, p, "raise")
            /\ UNCHANGED <<last_message_time, files, locked, lost, waiters>>
       ELSE LET rc == IF found THEN channel_bot_chat[1] ELSE 0 IN
            /\ IF LockFree
               THEN /\ Enter(p, rc, internet, TRUE, k)
                    /\ UNCHANGED waiters
               ELSE /\ awaiting_response' = TRUE
                    /\ response_channel' = [response_channel EXCEPT ![p] = rc]
                    /\ pc' = [pc EXCEPT ![p] = "wait_lock"]
                    /\ waiters' = Append(waiters, p)
                    /\ ev' = Ev(k, p, "wait")
                    /\ UNCHANGED <<last_message_time, files, locked,
                                   cached_data, lines, wakeAt, lost>>

\* a caller other than the monitor starts a dispatch
AI_send_message(p, found, internet) ==
    /\ p \in Ext
    /\ pc[p] = "idle"
    /\ Begin(p, found, internet, "trigger")
    /\ UNCHANGED <<config, last_event, last_accept, now, pending, nextId, sent, passed, captured>>

\* a waiter gets the lock
acquire(p, internet) ==
    /\ pc[p] = "wait_lock"
    /\ waiters # <<>> /\ Head(waiters) = p
    /\ ~locked
    /\ waiters' = Tail(waiters)
    /\ Enter(p, response_channel[p], internet, awaiting_response, "acquire")
    /\ UNCHANGED <<config, last_event, last_accept, now, pending, nextId,
                   sent, passed, captured>>

\* typing() entered (or failed): read the cache and call cai.cai_response
typing_entered(p, ok) ==
    /\ pc[p] = "typing"
    /\ LET data == read_json(files, messages_cache) IN
       IF ~ok
       THEN /\ Finally(p, Unbound, "typing", "unbound")
            /\ UNCHANGED <<passed, sent>>
       ELSE IF data = <<>>
       THEN /\ Finally(p, Bound(data), "typing", "empty")
            /\ UNCHANGED <<passed, sent>>
       ELSE /\ Suspend(p, "ai_call", response_channel[p], Bound(data), <<>>,
                       awaiting_response, "typing", "snapshot")
            /\ sent' = <<>>
            /\ passed' = [i \in DOMAIN passed |->
                            IF i \in Ids(data) THEN passed[i] + 1 ELSE passed[i]]
    /\ UNCHANGED <<config, last_event, last_accept, now, waiters, pending,
                   nextId, captured>>

\* cai.cai_response returned (or raised)
cai_response_done(p, ok, response) ==
    /\ pc[p] = "ai_call"
    /\ IF ~ok
       THEN Finally(p, cached_data[p], "ai", "failed")
       ELSE IF ToSend(response) = <<>>
       THEN Finally(p, cached_data[p], "ai", "done")
       ELSE Suspend(p, "sending", response_channel[p], cached_data[p],
                    ToSend(response), awaiting_response, "ai", "send")
    /\ UNCHANGED <<config, last_event, last_accept, now, waiters, pending,
                   nextId, sent, passed, captured>>

\* response_channel.send returned (or raised)
send_done(p, ok) ==
    /\ pc[p] = "sending"
    /\ IF ~ok
       THEN /\ Finally(p, cached_data[p], "send", "failed")
            /\ UNCHANGED sent
       ELSE /\ sent' = Append(sent, Head(lines[p]))
            /\ IF Tail(lines[p]) = <<>>
               THEN Finally(p, cached_data[p], "send", "done")
               ELSE Suspend(p, "sending", response_channel[p], cached_data[p],
                            Tail(lines[p]), awaiting_response, "send", "send")
    /\ UNCHANGED <<config, last_event, last_accept, now, waiters, pending,
                   nextId, passed, captured>>

----------------------------------------------------------------------------
(* monitor_inactivity: one pass of the loop after asyncio.sleep(3) *)

\* the file the monitor opens
MonitorPath == DefaultPath

\* (time.time() - self.last_message_time >= 7 or cache_count >= 5) and cache_count >= 1
Trigger(D, cache_count) ==
    (D >= IdleThreshold \/ cache_count >= BatchThreshold) /\ cache_count >= 1

monitor_inactivity(found, internet) ==
    /\ pc[Mon] = "idle"
    /\ now >= wakeAt
    /\ IF awaiting_response
       THEN /\ wakeAt' = now + TickPeriod
            /\ ev' = Ev("tick", Mon, "skip")
            /\ UNCHANGED <<last_message_time, awaiting_response, locked,
                           waiters, files, pc, response_channel, cached_data,
                           lines, lost>>
       ELSE IF ~files[MonitorPath].exists
       THEN \* open() raises; caught by the except of the loop
            /\ wakeAt' = now + TickPeriod
            /\ pc' = [pc EXCEPT ![Mon] = MonitorResume(TRUE)]
            /\ ev' = Ev("tick", Mon, "unreadable")
            /\ UNCHANGED <<last_message_time, awaiting_response, locked,
                           waiters, files, response_channel, cached_data,
                           lines, lost>>
       ELSE IF Trigger(now - last_message_time, Len(files[MonitorPath].data))
       THEN Begin(Mon, found, internet, "tick")
       ELSE /\ wakeAt' = now + TickPeriod
            /\ ev' = Ev("tick", Mon, "quiet")
            /\ UNCHANGED <<last_message_time, awaiting_response, locked,
                           waiters, files, pc, response_channel, cached_data,
                           lines, lost>>
    /\ UNCHANGED <<config, last_event, last_accept, now, pending, nextId, sent, passed, captured>>

----------------------------------------------------------------------------

Next ==
    \/ now + TickPeriod <= MaxTime /\ Advance(TickPeriod)
    \/ \E c \in Channels, u \in Users : time_typing(c, u)
    \/ nextId <= MaxMsgs /\ \E c \in Channels, u \in Users, m \in Contents, r \in BOOLEAN :
          read_channel_messages(c, u, m, r)
    \/ \E h \in pending, ok \in BOOLEAN : fetch_message_done(h, ok)
    \/ \E found \in BOOLEAN, internet \in BOOLEAN : monitor_inactivity(found, internet)
    \/ \E p \in Ext, found \in BOOLEAN, internet \in BOOLEAN :
          AI_send_message(p, found, internet)
    \/ \E p \in Procs, internet \in BOOLEAN : acquire(p, internet)
    \/ \E p \in Procs, ok \in BOOLEAN : typing_entered(p, ok)
    \/ \E p \in Procs, ok \in BOOLEAN, r \in Responses : cai_response_done(p, ok, r)
    \/ \E p \in Procs, ok \in BOOLEAN : send_done(p, ok)

Spec == Init /\ [][Next]_vars

\* The monitor alone with the collector and the typing tracker, over a clock
\* long enough for the idle threshold and a backlog long enough for the batch
\* threshold.
NextTiming ==
    \/ now < MaxClock /\ Advance(1)
    \/ \E c \in Channels, u \in Users : time_typing(c, u)
    \/ nextId <= MaxBatch /\ \E c \in Channels, u \in Users, m \in Contents :
          read_channel_messages(c, u, m, FALSE)
    \/ \E found \in BOOLEAN, internet \in BOOLEAN : monitor_inactivity(found, internet)
    \/ \E ok \in BOOLEAN : typing_entered(Mon, ok)
    \/ \E ok \in BOOLEAN, r \in Responses : cai_response_done(Mon, ok, r)
    \/ \E ok \in BOOLEAN : send_done(Mon, ok)

SpecTiming == InitTiming /\ [][NextTiming]_vars

\* The event loop runs a task that is ready, and time passes.
SpecTimingFair ==
    /\ SpecTiming
    /\ WF_vars(now < MaxClock /\ Advance(1))
    /\ WF_vars(\E found \in BOOLEAN, internet \in BOOLEAN :
                  monitor_inactivity(found, internet))

\* An awaited operation completes and the event loop resumes its coroutine.
SpecFair ==
    /\ Spec
    /\ WF_vars(\E h \in pending, ok \in BOOLEAN : fetch_message_done(h, ok))
    /\ WF_vars(\E p \in Procs, internet \in BOOLEAN : acquire(p, internet))
    /\ WF_vars(\E p \in Procs, ok \in BOOLEAN : typing_entered(p, ok))
    /\ WF_vars(\E p \in Procs, ok \in BOOLEAN, r \in Responses : cai_response_done(p, ok, r))
    /\ WF_vars(\E p \in Procs, ok \in BOOLEAN : send_done(p, ok))

\* The collector alone: message events, some of them replies whose reference
\* is fetched while later events are handled.
InitCollect == InitWith({DefaultPath}, {TRUE}, {Persisted(0)})

NextCollect ==
    \/ now < MaxTime /\ Advance(1)
    \/ nextId <= MaxArrivals /\ \E c \in Channels, u \in Users, m \in Contents, r \in BOOLEAN :
          read_channel_messages(c, u, m, r)
    \/ \E h \in pending, ok \in BOOLEAN : fetch_message_done(h, ok)

SpecCollect == InitCollect /\ [][NextCollect]_vars

\* The reconciliation applied to every cache and every snapshot up to a
\* length: a dispatch stands at its AI call with snapshot S while the cache
\* file holds C.  The first and the third entry are equal as dicts.
ReconcileEntries ==
    {Entry(1, Human, Hello, <<>>),
     Entry(2, Human, Hello, ReplyOf(RefMessage)),
     Entry(3, Human, Hello, <<>>)}

CachesUpTo(n) ==
    {c \in UNION {[1..k -> ReconcileEntries] : k \in 0..n} :
        Cardinality(Ids(c)) = Len(c)}

InitReconcile ==
    /\ channel_bot_chat = <<WatchedChannel>>
    /\ messages_cache = DefaultPath
    /\ send_line_by_line = TRUE
    /\ now = 0
    /\ last_message_time = 0
    /\ awaiting_response = TRUE
    /\ locked = TRUE
    /\ waiters = <<>>
    /\ \E C \in CachesUpTo(MaxLen), S \in CachesUpTo(MaxLen) \ {<<>>} :
          /\ files = [p \in Paths |-> IF p = messages_cache THEN File(C) ELSE NoFile]
          /\ cached_data = [p \in Procs |-> IF p = Mon THEN Bound(S) ELSE Unbound]
          /\ captured = Ids(C)
          /\ passed = [i \in (1 - BatchThreshold)..(MaxMsgs + MaxBatch) |->
                          IF i \in Ids(S) THEN 1 ELSE 0]
    /\ pending = {}
    /\ nextId = 4
    /\ pc = [p \in Procs |-> IF p = Mon THEN "ai_call" ELSE "idle"]
    /\ response_channel = [p \in Procs |-> IF p = Mon THEN WatchedChannel ELSE 0]
    /\ lines = [p \in Procs |-> <<>>]
    /\ sent = <<>>
    /\ wakeAt = TickPeriod
    /\ lost = {}
    /\ last_event = 0
    /\ last_accept = 0
    /\ ev = Ev("typing", Mon, "snapshot")

NextReconcile ==
    \/ \E ok \in BOOLEAN, r \in Responses : cai_response_done(Mon, ok, r)
    \/ \E ok \in BOOLEAN : send_done(Mon, ok)

SpecReconcile == InitReconcile /\ [][NextReconcile]_vars

\* The delivery applied to every reply up to a length: a dispatch stands at
\* its AI call, and cai_response returns any text of letters, blanks and
\* line breaks.
RepliesUpTo(n) == UNION {[1..k -> {"a", " ", "\n"}] : k \in 0..n}

InitDeliver ==
    /\ channel_bot_chat = <<WatchedChannel>>
    /\ messages_cache = DefaultPath
    /\ send_line_by_line \in BOOLEAN
    /\ now = 0
    /\ last_message_time = 0
    /\ awaiting_response = TRUE
    /\ locked = TRUE
    /\ waiters = <<>>
    /\ files = [p \in Paths |-> IF p = messages_cache THEN File(Persisted(1)) ELSE NoFile]
    /\ cached_data = [p \in Procs |-> IF p = Mon THEN Bound(Persisted(1)) ELSE Unbound]
    /\ captured = Ids(Persisted(1))
    /\ passed = [i \in (1 - BatchThreshold)..(MaxMsgs + MaxBatch) |->
                    IF i \in Ids(Persisted(1)) THEN 1 ELSE 0]
    /\ pending = {}
    /\ nextId = 1
    /\ pc = [p \in Procs |-> IF p = Mon THEN "ai_call" ELSE "idle"]
    /\ response_channel = [p \in Procs |-> IF p = Mon THEN WatchedChannel ELSE 0]
    /\ lines = [p \in Procs |-> <<>>]
    /\ sent = <<>>
    /\ wakeAt = TickPeriod
    /\ lost = {}
    /\ last_event = 0
    /\ last_accept = 0
    /\ ev = Ev("typing", Mon, "snapshot")

NextDeliver ==
    \/ \E ok \in BOOLEAN, r \in RepliesUpTo(MaxReply) : cai_response_done(Mon, ok, r)
    \/ \E ok \in BOOLEAN : send_done(Mon, ok)

SpecDeliver == InitDeliver /\ [][NextDeliver]_vars

\* The monitor after the activity has stopped: no message and no typing
\* event, the channel resolves and typing() succeeds; the network may be
\* unreachable early on and is reachable for the last tick period.
InitRetry == InitWith(Paths, BOOLEAN, {Persisted(0), Persisted(1)})

NextRetry ==
    \/ now < MaxQuiet /\ Advance(1)
    \/ \E internet \in {TRUE} \cup {b \in {FALSE} : now + TickPeriod < MaxQuiet} :
          monitor_inactivity(TRUE, internet)
    \/ typing_entered(Mon, TRUE)
    \/ \E ok \in BOOLEAN, r \in Responses : cai_response_done(Mon, ok, r)
    \/ \E ok \in BOOLEAN : send_done(Mon, ok)

SpecRetry ==
    /\ InitRetry /\ [][NextRetry]_vars
    /\ WF_vars(now < MaxQuiet /\ Advance(1))
    /\ WF_vars(\E internet \in BOOLEAN : monitor_inactivity(TRUE, internet))
    /\ WF_vars(typing_entered(Mon, TRUE))

----------------------------------------------------------------------------
(* Properties *)

Cache == read_json(files, messages_cache)

Critical == {"typing", "ai_call", "sending"}

InCritical == {p \in Procs : pc[p] \in Critical}

\* C1: at most one AI_send_message call is inside the lock-guarded section
\* (between acquiring response_lock and releasing it), however many calls
\* the monitor and other callers have started.
MutualExclusion == Cardinality(InCritical) <= 1

\* C1 witness: one call is inside the section while another waits for the lock
OneInsideOneWaiting ==
    \E p, q \in Procs : pc[p] \in Critical /\ pc[q] = "wait_lock"

\* C2: a cache entry is removed only by the reconciliation of a dispatch
\* whose snapshot held that very entry; in particular a message captured
\* between the snapshot and the reconciliation survives the reconciliation,
\* also when its fields equal those of a snapshot entry.
ArrivalsSurvive == lost = {}

\* the cache c without the entries whose value occurs in snapshot s, in order
RECURSIVE Without(_, _)
Without(c, s) ==
    IF c = <<>> THEN <<>>
    ELSE IF \E j \in DOMAIN s : s[j].val = Head(c).val
    THEN Without(Tail(c), s)
    ELSE <<Head(c)>> \o Without(Tail(c), s)

HistoryKept ==
    /\ \A i \in DOMAIN passed : passed[i] <= 1
    /\ \A i \in captured : i \notin Ids(Cache) => passed[i] >= 1

\* C5: whenever no AI_send_message call is in flight, awaiting_response is
\* false (every call, however it ends, clears the flag).
IdleMeansNotAwaiting ==
    (\A p \in Procs : pc[p] = "idle") => ~awaiting_response

\* C10: every accept that completes appends exactly one entry, the accepted
\* message, at the end of the cache and refreshes last_message_time.
AcceptAppends ==
    [][(ev'.k = "fetched" \/ (ev'.k = "message" /\ ev'.out = "capture"))
          => /\ Len(read_json(files', messages_cache)) = Len(Cache) + 1
             /\ SubSeq(read_json(files', messages_cache), 1, Len(Cache)) = Cache
             /\ last_message_time' = now]_vars

\* the outcomes of a tick that called AI_send_message
Invoked == {"raise", "wait", "typing", "noinet", "unbound"}

\* C6: a tick calls AI_send_message exactly when awaiting_response is false
\* and the cache holds N >= 1 entries and (the idle time D >= 7 or N >= 5);
\* with awaiting_response true it skips without reading the cache.
TickDecision ==
    [][ev'.k = "tick"
          => /\ (ev'.out \in Invoked)
                  <=> /\ ~awaiting_response
                      /\ Len(Cache) >= 1
                      /\ \/ now - last_message_time >= IdleThreshold
                         \/ Len(Cache) >= BatchThreshold
             /\ awaiting_response => ev'.out = "skip"]_vars

\* C7: a tick that finds one message in the cache and 7 or more time units
\* of silence triggers a dispatch, and a tick that finds 5 messages in the
\* cache triggers one before the idle threshold has passed.
IdleOrBatchTriggers ==
    [][(ev'.k = "tick" /\ ~awaiting_response)
          => /\ (Len(Cache) = 1 /\ now - last_message_time >= IdleThreshold)
                  => ev'.out \in Invoked
             /\ (Len(Cache) >= BatchThreshold /\ now - last_message_time < IdleThreshold)
                  => ev'.out \in Invoked]_vars

TickRaised == ev.k = "tick" /\ ev.out \in {"unreadable", "raise"}

\* C9: a tick that raises (the cache file cannot be read, or an exception
\* comes out of AI_send_message) leaves the monitor in its loop, asleep until
\* the next tick, and the monitor wakes up for that next tick (as long as the
\* clock of the model reaches it); the monitor never ends.
MonitorKeepsTicking ==
    /\ [](pc[Mon] \in {"idle", "wait_lock"} \cup Critical)
    /\ [][(ev'.k = "tick" /\ ev'.out \in {"unreadable", "raise"})
             => (pc'[Mon] = "idle" /\ wakeAt' = now + TickPeriod)]_vars
    /\ (TickRaised /\ wakeAt <= MaxClock) ~> (pc[Mon] = "idle" /\ now = wakeAt)

\* C9 witness: an exception came out of AI_send_message at a tick, and the
\* monitor sleeps until the next tick
RaisedAndAsleep ==
    /\ ev.k = "tick" /\ ev.out = "raise"
    /\ pc[Mon] = "idle"
    /\ wakeAt = now + TickPeriod

\* C11: the cache is in arrival order: of two accepted messages, the one
\* whose message event was delivered first comes first in the cache, also
\* when its reply reference is fetched while the other's handler runs.
ArrivalOrder ==
    \A i, j \in DOMAIN Cache : i < j => Cache[i].id < Cache[j].id

\* C12: a message event whose channel is not watched, or whose sender is the
\* bot, or whose content starts with "#" or "//", is a no-op: the handler
\* returns and the cache file, last_message_time and awaiting_response are
\* as before.
RejectIsNoOp ==
    [][\A c \in Channels, u \in Users, m \in Contents, r \in BOOLEAN :
          (/\ read_channel_messages(c, u, m, r)
           /\ \/ c \notin Range(channel_bot_chat)
              \/ u.id = BotUser.id
              \/ StartsWith(m, <<"#">>)
              \/ StartsWith(m, <<"/", "/">>))
          => UNCHANGED <<files, last_message_time, awaiting_response, pending>>]_vars

\* C12 witness: a message was rejected while a dispatch was under way and
\* the cache held entries
RejectedDuringDispatch ==
    /\ ev.k = "message" /\ ev.out = "reject"
    /\ awaiting_response
    /\ Cache # <<>>

\* C13: when the lookup of the replied-to message fails, the accepted
\* message is still appended to the cache, without reply context.
FetchFailureDegrades ==
    [][\A h \in pending :
          fetch_message_done(h, FALSE)
          => read_json(files', messages_cache)
                = Append(Cache, Entry(h.id, h.author, h.content, <<>>))]_vars

\* a call of p got the lock in this step (at once, or as the first waiter)
\* with test_internet() returning internet
GotLock(p, internet) ==
    /\ \E found \in BOOLEAN :
          \/ acquire(p, internet)
          \/ AI_send_message(p, found, internet)
          \/ p = Mon /\ monitor_inactivity(found, internet)
    /\ ev'.p = p
    /\ ev'.out \in {"noinet", "unbound", "typing"}

\* C14: a dispatch that finds the network unreachable takes no snapshot,
\* does not call the AI client, sends nothing, leaves the cache file as it
\* is, clears awaiting_response and releases the lock.
NoInternetAborts ==
    [][\A p \in Procs :
          GotLock(p, FALSE)
          => /\ files' = files
             /\ passed' = passed
             /\ sent' = sent
             /\ cached_data'[p] = Unbound
             /\ pc'[p] = "idle"
             /\ ~awaiting_response'
             /\ ~locked']_vars

\* C14 witness: a call that waited for the lock found the network
\* unreachable, with entries in the cache
WaiterFoundNoInternet ==
    /\ ev.k = "acquire" /\ ev.out = "noinet"
    /\ Cache # <<>>

\* C15: when the AI call fails the cache is not changed: the entries of the
\* snapshot are still in the cache when the dispatch returns.
AIFailureKeepsCache ==
    [][\A p \in Procs, r \in Responses :
          cai_response_done(p, FALSE, r)
          => /\ read_json(files', messages_cache) = Cache
             /\ Ids(cached_data[p].data) \subseteq Ids(read_json(files', messages_cache))]_vars

\* C16: a dispatch whose destination channel is not found still takes the
\* snapshot and passes it to the AI client, sends nothing, and reconciles:
\* when it returns the entries of the snapshot have been in a batch and are
\* no longer in the cache, and awaiting_response is false.
ChannelNotFoundReconciles ==
    [][\A p \in Procs :
          (GotLock(p, TRUE) /\ response_channel'[p] = 0 /\ pc'[p] = "idle")
          => /\ \A i \in Ids(Cache) :
                   passed'[i] >= 1 /\ i \notin Ids(read_json(files', messages_cache))
             /\ sent' = sent
             /\ ~awaiting_response']_vars

\* C17: reconciling a snapshot S against a cache C that holds no entry equal
\* to an entry of S writes C back as it is (same entries, same order); and
\* after any reconciliation of S, reconciling S again changes nothing.
ReconcileNoOp ==
    [][\A p \in Procs :
          (pc[p] \in {"ai_call", "sending"} /\ pc'[p] = "idle")
          => /\ (\A i \in DOMAIN Cache, j \in DOMAIN cached_data[p].data :
                    Cache[i].val # cached_data[p].data[j].val)
                  => read_json(files', messages_cache) = Cache
             /\ read_json(Reconciled(files', cached_data[p]), messages_cache)
                   = read_json(files', messages_cache)]_vars

\* C17 witness: a dispatch with a non-empty snapshot has returned and the
\* cache, not empty, holds every entry it held before
ReconciledNothing ==
    /\ ev.k \in {"ai", "send"}
    /\ pc[Mon] = "idle"
    /\ Cache # <<>>
    /\ Ids(Cache) = captured
    /\ \E i \in DOMAIN passed : passed[i] >= 1

\* C18: a typing signal never changes the cache or awaiting_response (nor
\* anything else of the dispatch); it sets last_message_time to the current
\* time if and only if the channel is watched and the user is not the bot,
\* and otherwise leaves last_message_time as it is.
TypingFrame ==
    [][\A c \in Channels, u \in Users :
          time_typing(c, u)
          => /\ UNCHANGED <<config, files, awaiting_response, locked, waiters,
                            pending, pc, response_channel, cached_data, lines>>
             /\ IF c \in Range(channel_bot_chat) /\ u.id # BotUser.id
                THEN last_message_time' = now
                ELSE last_message_time' = last_message_time]_vars

\* C18 witness: a typing signal refreshed the clock in the middle of a
\* dispatch
TypingDuringDispatch ==
    /\ ev.k = "typing" /\ ev.out = "refresh"
    /\ now > 0
    /\ last_message_time = now
    /\ pc[Mon] = "ai_call"

\* a step that writes the cache file from the cache as it is: the append of
\* one newly captured entry, or the filter of a returning dispatch
WriteFromCurrent ==
    \/ \E i \in captured' \ captured :
          read_json(files', messages_cache) = Append(Cache, read_json(files', messages_cache)[Len(Cache) + 1])
          /\ read_json(files', messages_cache)[Len(Cache) + 1].id = i
    \/ \E p \in Procs :
          /\ pc[p] \in Critical /\ pc'[p] = "idle"
          /\ read_json(files', messages_cache) = Without(Cache, cached_data[p].data)

\* a step in which a write to the cache file undoes another write: the
\* cache changes otherwise than by a write computed from its current
\* content, or an entry that had left the cache is back in it
LostUpdate ==
    \/ read_json(files', messages_cache) # Cache /\ ~WriteFromCurrent
    \/ \E i \in Ids(read_json(files', messages_cache)) \ Ids(Cache) : i \in captured

EmptyCacheNoOp ==
    [][\A p \in Procs :
          (typing_entered(p, TRUE) /\ Cache = <<>>)
          => /\ passed' = passed
             /\ sent' = sent
             /\ pc'[p] = "idle"
             /\ read_json(files', messages_cache) = Cache
             /\ last_message_time' = last_message_time
             /\ ~locked']_vars

\* the positions that end a line of r: its line breaks, and both ends
BreaksOf(r) == {0, Len(r) + 1} \cup {i \in DOMAIN r : r[i] = "\n"}

\* the non-blank lines of r after position b, in order
RECURSIVE NonBlankFrom(_, _)
NonBlankFrom(r, b) ==
    IF b > Len(r) THEN <<>>
    ELSE LET c == CHOOSE c \in BreaksOf(r) :
                     c > b /\ \A d \in BreaksOf(r) : d > b => c <= d
             l == [i \in 1..(c - b - 1) |-> r[b + i]]
         IN (IF \E i \in DOMAIN l : l[i] \notin {" ", "\n"} THEN <<l>> ELSE <<>>)
               \o NonBlankFrom(r, c)

\* C21: with line-by-line delivery the messages sent are the non-blank
\* lines of the reply, in order, one message per line; without it one
\* message, the whole reply.  The reply fixes what is left to send, every
\* send that succeeds sends the first of what is left, and the dispatch ends
\* when nothing is left.
DeliveryExact ==
    [][\A p \in Procs :
          /\ \A r \in RepliesUpTo(MaxReply) :
                cai_response_done(p, TRUE, r)
                => /\ sent' = sent
                   /\ LET expected == IF send_line_by_line
                                       THEN NonBlankFrom(r, 0) ELSE <<r>> IN
                      IF expected = <<>>
                      THEN pc'[p] = "idle"
                      ELSE pc'[p] = "sending" /\ lines'[p] = expected
          /\ send_done(p, TRUE)
                => /\ sent' = Append(sent, Head(lines[p]))
                   /\ IF Len(lines[p]) = 1
                      THEN pc'[p] = "idle"
                      ELSE pc'[p] = "sending" /\ lines'[p] = Tail(lines[p])]_vars

\* C21 witness: a reply of two non-blank lines was delivered as two
\* messages, the second with its leading blank
TwoLinesDelivered ==
    /\ ev.k = "send" /\ ev.out = "done"
    /\ send_line_by_line
    /\ sent = <<<<"a">>, <<" ", "a">>>>

\* a dispatch has just taken its snapshot, and it holds the whole cache
SnapshotTaken ==
    /\ ev.k = "typing" /\ ev.out = "snapshot"
    /\ cached_data[Mon] = Bound(Cache)

\* C22: with entries in the cache, no dispatch in flight, no more message or
\* typing activity and the network reachable from some point on, a later
\* tick of the monitor starts a dispatch whose snapshot holds every entry
\* then in the cache; so does a tick that follows a dispatch aborted for an
\* unreachable network.
EventuallyDispatched ==
    /\ (now = 0 /\ Cache # <<>>) ~> SnapshotTaken
    /\ (ev.out = "noinet" /\ Cache # <<>>) ~> SnapshotTaken

\* C23: whenever a dispatch is inside the lock-guarded section,
\* awaiting_response is true, also after an earlier call has returned while
\* this one waited for the lock.
CriticalMeansAwaiting == InCritical # {} => awaiting_response

\* C24: whatever cache path is configured, the number of entries a tick of
\* the monitor evaluates is the length of the cache that the collector
\* appends to and that the dispatch snapshots and reconciles.
MonitorCountsTheCache ==
    [][(ev'.k = "tick" /\ ~awaiting_response)
          => /\ files[MonitorPath].exists
             /\ Len(files[MonitorPath].data) = Len(Cache)]_vars

====
